---- MODULE Spec2Model ----
(***************************************************************************)
(* Home Assistant MQTT discovery payloads: the Cover and Number entities   *)
(* (src/mqtt/cover.rs, src/mqtt/number.rs), their builder, and the         *)
(* document serde derives for them.  A caller starts from                  *)
(* Cover::default() or Number::default(), fills fields in, and serializes  *)
(* the value with serde_json::to_value.                                    *)
(*                                                                         *)
(* A Rust String is a sequence of one-character strings, so that the       *)
(* placeholder '~' inside a topic can be told from the rest of it.         *)
(* An Option<T> is a sequence of length 0 (None) or 1 (Some).              *)
(* A document is the sequence of <<key, value>> entries in the order the   *)
(* serializer writes them.                                                 *)
(***************************************************************************)
EXTENDS Integers, Sequences, FiniteSets, TLC

VARIABLES
    kind,     \* the caller that runs: the one building the "cover" or the "number"
    cover,    \* the Cover value held by its caller
    number,   \* the Number value held by its caller
    docs,     \* per caller: the document of its last serialization, NoDoc before it
    pcs,      \* per caller: "build", "done" (serialized) or "failed" (construction error)
    ncalls,   \* per caller: builder calls and field writes made so far
    errs,     \* per caller: the construction error returned to it, "" if none
    applied,  \* per caller: history of its calls, <<field, last argument, called again>>
    converted \* the Entity the Cover was converted into, None before the conversion

vars == <<kind, cover, number, docs, pcs, ncalls, errs, applied, converted>>

\* The running caller's own document, position, call count and error.
doc == docs[kind]
pc == pcs[kind]
calls == ncalls[kind]
err == errs[kind]

\* ---------------------------------------------------------------- bounds

\* Builder calls and field writes per entity.
MaxCalls == 2
\* Entries in the list given to Availability::multiple.
MaxEntries == 2

\* ---------------------------------------------------------------- values

None == <<>>
Some(v) == <<v>>
is_none(o) == Len(o) = 0
is_some(o) == Len(o) = 1
unwrap(o) == o[1]
OptionOf(S) == {None} \cup {Some(v) : v \in S}

\* Strings used as inputs.
TopicTilde == <<"~", "/", "s">>
TopicPlain == <<"h", "/", "s">>
TopicPrefix == <<"h", "/", "c">>
Text == <<"x">>

TopicInputs == {TopicTilde, TopicPlain}
PrefixInputs == {TopicPrefix}
TextInputs == {Text}
EmptyString == <<>>
TextOrEmptyInputs == {Text, EmptyString}
BoolInputs == BOOLEAN
I32Inputs == {100, -1}
F64Inputs == {1, 100}
ExpireInputs == {60, 1}

\* JSON values.  A string value carries its characters; the tag of an
\* enumerated value is a JSON string too, written as a literal.
JNull == [t |-> "null", v |-> <<>>]
JBool(b) == [t |-> "bool", v |-> b]
JNum(n) == [t |-> "number", v |-> n]
JStr(s) == [t |-> "string", v |-> s]
JTag(s) == [t |-> "tag", v |-> s]
JArr(a) == [t |-> "array", v |-> a]
JObj(m) == [t |-> "object", v |-> m]

NoDoc == <<<<"", JNull>>>>
Entry(k, v) == <<k, v>>

HasKey(m, k) == \E i \in 1..Len(m) : m[i][1] = k
\* The value a map built from the entries holds under k: a later entry
\* with the same key replaces an earlier one.
Get(m, k) ==
    LET last == CHOOSE i \in 1..Len(m) :
                    /\ m[i][1] = k
                    /\ \A j \in (i+1)..Len(m) : m[j][1] # k
    IN m[last][2]
Keys(m) == {m[i][1] : i \in 1..Len(m)}

\* ---------------------------------------------------------------- enums

\* A DisplayMode without the rename attributes: the variant names are written.
DisplayModeTag_variant == [Box |-> "Box", Slider |-> "Slider"]

\* DisplayMode and the tag each variant is renamed to.
DisplayModeTag == [Box |-> "box", Slider |-> "slider"]

\* NumberDeviceClass and the tag each variant is renamed to.
NumberDeviceClassTag == [
    ApparentPower |-> "apparent_power",
    Aqi |-> "aqi",
    AtmosphericPressure |-> "atmospheric_pressure",
    Battery |-> "battery",
    CarbonDioxide |-> "carbon_dioxide",
    CarbonMonoxide |-> "carbon_monoxide",
    Current |-> "current",
    DataRate |-> "data_rate",
    DataSize |-> "data_size",
    Distance |-> "distance",
    Energy |-> "energy",
    EnergyStorage |-> "energy_storage",
    Frequency |-> "frequency",
    Gas |-> "gas",
    Humidity |-> "humidity",
    Illuminance |-> "illuminance",
    Irradiance |-> "irradiance",
    Moisture |-> "moisture",
    Monetary |-> "monetary",
    NitrogenDioxide |-> "nitrogen_dioxide",
    NitrogenMonoxide |-> "nitrogen_monoxide",
    NitrousOxide |-> "nitrous_oxide",
    Ozone |-> "ozone",
    Ph |-> "ph",
    Pm1 |-> "pm1",
    Pm10 |-> "pm10",
    Pm25 |-> "pm25",
    PowerFactor |-> "power_factor",
    Power |-> "power",
    Precipitation |-> "precipitation",
    PrecipitationIntensity |-> "precipitation_intensity",
    Pressure |-> "pressure",
    ReactivePower |-> "reactive_power",
    SignalStrength |-> "signal_strength",
    SoundPressure |-> "sound_pressure",
    Speed |-> "speed",
    SulphurDioxide |-> "sulphur_dioxide",
    Temperature |-> "temperature",
    VolatileOrganicCompounds |-> "volatile_organic_compounds",
    Voltage |-> "voltage",
    Volume |-> "volume",
    VolumeStorage |-> "volume_storage",
    Water |-> "water",
    Weight |-> "weight",
    WindSpeed |-> "wind_speed"]

\* Unit: the one variant the test uses, Unit::Percentage(Percentage).
UnitTag == [Percentage |-> "%"]

DisplayModeInputs == DOMAIN DisplayModeTag
NumberDeviceClassInputs == {"Battery", "Power"}
UnitInputs == DOMAIN UnitTag
\* EntityCategory and Qos are declared in another file: a value of either
\* is carried as its variant name.
EntityCategoryInputs == {"Config"}
QosInputs == {"AtMostOnce"}

\* ---------------------------------------------------------------- origin, device

\* Origin { name, sw_version: None, support_url: None }
Origin_default == [name |-> <<>>]
OriginInputs == {[name |-> <<"a">>]}
Origin_serialize(o) == <<Entry("name", JStr(o.name))>>

\* Device { name, identifiers: vec![], connections: vec![], the rest None }
Device_default == [name |-> None]
DeviceInputs == {[name |-> Some(<<"d">>)]}
Device_serialize(d) ==
    IF is_none(d.name) THEN <<>> ELSE <<Entry("name", JStr(unwrap(d.name)))>>

\* ---------------------------------------------------------------- availability

DefaultPayloadAvailable == <<"o", "n", "l", "i", "n", "e">>
DefaultPayloadNotAvailable == <<"o", "f", "f", "l", "i", "n", "e">>
PayloadUp == <<"u", "p">>
PayloadDown == <<"d", "n">>

AvailabilityModeTag == [All |-> "all", Any |-> "any", Latest |-> "latest"]
AvailabilityModes == DOMAIN AvailabilityModeTag

\* An entry of the availability list: a topic with the default payloads.
AvailabilityEntry_topic(topic) ==
    [topic |-> topic,
     payload_available |-> DefaultPayloadAvailable,
     payload_not_available |-> DefaultPayloadNotAvailable,
     value_extraction_rule |-> None]
AvailabilityEntry_payload_available(e, p) == [e EXCEPT !.payload_available = p]
AvailabilityEntry_payload_not_available(e, p) == [e EXCEPT !.payload_not_available = p]

Availability_default ==
    [mode |-> "Latest", entries |-> <<>>, single_topic_shortcut |-> None,
     expire_after |-> None]

\* single_topic leaving the mode at its default.
single_topic_latest(topic) ==
    [mode |-> "Latest", entries |-> <<>>,
     single_topic_shortcut |-> Some(AvailabilityEntry_topic(topic)),
     expire_after |-> None]

\* Availability::single_topic(topic): one entry with the default payloads.
\* The document of single_topic("~/availability").expire_after(60) carries
\* "avty_mode": "all".
single_topic(topic) ==
    [mode |-> "All", entries |-> <<>>,
     single_topic_shortcut |-> Some(AvailabilityEntry_topic(topic)),
     expire_after |-> None]

\* expire_after building a fresh value around the expiry.
expire_after_fresh(a, seconds) == [Availability_default EXCEPT !.expire_after = Some(seconds)]
\* expire_after dropping its argument.
expire_after_noop(a, seconds) == a

\* An expire_after that attaches the expiry only to a single entry.
expire_after_single(a, seconds) ==
    IF Len(a.entries) + Len(a.single_topic_shortcut) = 1
    THEN [a EXCEPT !.expire_after = Some(seconds)]
    ELSE a

\* Availability::expire_after(seconds)
expire_after(a, seconds) == [a EXCEPT !.expire_after = Some(seconds)]

\* multiple keeping each distinct entry once.
RECURSIVE Dedup(_)
Dedup(es) ==
    IF Len(es) = 0 THEN <<>>
    ELSE LET rest == Dedup(SubSeq(es, 1, Len(es) - 1)) IN
         IF \E i \in 1..Len(rest) : rest[i] = es[Len(es)] THEN rest
         ELSE Append(rest, es[Len(es)])
multiple_dedup(entries, mode) ==
    [mode |-> mode, entries |-> Dedup(entries), single_topic_shortcut |-> None,
     expire_after |-> None]

\* Availability::multiple(entries, mode)
multiple(entries, mode) ==
    [mode |-> mode, entries |-> entries, single_topic_shortcut |-> None,
     expire_after |-> None]

\* The general constructor without the check.
Availability_new_unchecked(shortcut, entries, mode) ==
    [ok |-> TRUE,
     value |-> [mode |-> mode, entries |-> entries,
                single_topic_shortcut |-> shortcut, expire_after |-> None]]

\* The general constructor: the two forms, legacy single topic and entry
\* list, are mutually exclusive.
Availability_new(shortcut, entries, mode) ==
    IF is_some(shortcut) /\ Len(entries) > 0
    THEN [ok |-> FALSE, error |-> "ConfigurationConflict"]
    ELSE [ok |-> TRUE,
          value |-> [mode |-> mode, entries |-> entries,
                     single_topic_shortcut |-> shortcut, expire_after |-> None]]

\* The entries of an availability, whichever form holds them.
Entries(a) ==
    IF is_some(a.single_topic_shortcut) THEN <<unwrap(a.single_topic_shortcut)>>
    ELSE a.entries

\* An entry serializer that writes both payloads whatever they are.
AvailabilityEntry_serialize_always(e) ==
    <<Entry("t", JStr(e.topic)),
      Entry("pl_avail", JStr(e.payload_available)),
      Entry("pl_not_avail", JStr(e.payload_not_available))>>

AvailabilityEntry_serialize(e) ==
    <<Entry("t", JStr(e.topic))>>
    \o (IF e.payload_available = DefaultPayloadAvailable THEN <<>>
        ELSE <<Entry("pl_avail", JStr(e.payload_available))>>)
    \o (IF e.payload_not_available = DefaultPayloadNotAvailable THEN <<>>
        ELSE <<Entry("pl_not_avail", JStr(e.payload_not_available))>>)
    \o (IF is_none(e.value_extraction_rule) THEN <<>>
        ELSE <<Entry("val_tpl", JStr(unwrap(e.value_extraction_rule)))>>)

\* The keys an availability contributes to the document of its entity.
Availability_serialize(a) ==
    (IF a.mode = "Latest" THEN <<>>
     ELSE <<Entry("avty_mode", JTag(AvailabilityModeTag[a.mode]))>>)
    \o <<Entry("avty",
               JArr([i \in 1..Len(Entries(a)) |->
                        JObj(AvailabilityEntry_serialize(Entries(a)[i]))]))>>
    \o (IF is_none(a.expire_after) THEN <<>>
        ELSE <<Entry("exp_aft", JNum(unwrap(a.expire_after)))>>)

\* Inputs: the entries and availabilities a caller can construct.
EntryInputs ==
    {AvailabilityEntry_topic(TopicTilde)}
    \cup {AvailabilityEntry_payload_not_available(
              AvailabilityEntry_payload_available(AvailabilityEntry_topic(TopicPlain), pq[1]),
              pq[2]) :
          pq \in {<<DefaultPayloadAvailable, DefaultPayloadNotAvailable>>,
                  <<PayloadUp, PayloadDown>>,
                  <<PayloadUp, DefaultPayloadNotAvailable>>}}

SeqsUpTo(S, n) == UNION {[1..k -> S] : k \in 0..n}
EntryLists == SeqsUpTo(EntryInputs, MaxEntries)

\* Availabilities on which expire_after was never called.
AvailabilityPlain ==
    {Availability_default}
    \cup {single_topic(t) : t \in TopicInputs}
    \cup {multiple(es, m) : es \in EntryLists, m \in AvailabilityModes}
AvailabilityAll ==
    AvailabilityPlain
    \cup {expire_after(a, n) : a \in AvailabilityPlain, n \in ExpireInputs}

\* The availabilities used while the other fields vary.
AvailabilityInputs ==
    {single_topic(TopicTilde), expire_after(single_topic(TopicTilde), 60)}

\* ---------------------------------------------------------------- serialization

\* The JSON value of a field value of Rust type ty.
ToJson(ty, v) ==
    CASE ty = "String" -> JStr(v)
      [] ty = "bool" -> JBool(v)
      [] ty \in {"i32", "f64"} -> JNum(v)
      [] ty = "DisplayMode" -> JTag(DisplayModeTag[v])
      [] ty = "NumberDeviceClass" -> JTag(NumberDeviceClassTag[v])
      [] ty = "Unit" -> JTag(UnitTag[v])
      [] ty \in {"EntityCategory", "Qos"} -> [t |-> ty, v |-> v]
      [] ty = "Origin" -> JObj(Origin_serialize(v))
      [] ty = "Device" -> JObj(Device_serialize(v))

\* A derive that ignores the rename attribute and writes the field name.
SerializeField_unrenamed(fd, v) ==
    IF fd.flatten THEN Availability_serialize(v)
    ELSE IF fd.option
         THEN IF is_none(v)
              THEN IF fd.skip THEN <<>> ELSE <<Entry(fd.name, JNull)>>
              ELSE <<Entry(fd.name, ToJson(fd.ty, unwrap(v)))>>
         ELSE <<Entry(fd.name, ToJson(fd.ty, v))>>

\* A derive without the flatten attribute: the availability is written as a
\* nested object under the name of its field.
SerializeField_nested(fd, v) ==
    IF fd.flatten THEN <<Entry(fd.name, JObj(Availability_serialize(v)))>>
    ELSE IF fd.option
         THEN IF is_none(v)
              THEN IF fd.skip THEN <<>> ELSE <<Entry(fd.key, JNull)>>
              ELSE <<Entry(fd.key, ToJson(fd.ty, unwrap(v)))>>
         ELSE <<Entry(fd.key, ToJson(fd.ty, v))>>

\* A serializer that computes the key from the value: an empty string is
\* written under the name of its field, anything else under the compact key.
SerializeField_by_value(fd, v) ==
    IF fd.flatten THEN Availability_serialize(v)
    ELSE LET empty == IF fd.option THEN v = Some(EmptyString) ELSE v = EmptyString
             k == IF fd.ty = "String" /\ empty THEN fd.name ELSE fd.key
         IN IF fd.option
            THEN IF is_none(v)
                 THEN IF fd.skip THEN <<>> ELSE <<Entry(fd.key, JNull)>>
                 ELSE <<Entry(k, ToJson(fd.ty, unwrap(v)))>>
            ELSE <<Entry(k, ToJson(fd.ty, v))>>

\* The defaults the hub documents for three fields, by compact key.
HubDefault == [en |-> TRUE, pos_open |-> 100, ret |-> FALSE]

\* A derive with skip_serializing_if on the default: a field that holds the
\* default the hub documents is left out.
SerializeField_skip_default(fd, v) ==
    IF fd.flatten THEN Availability_serialize(v)
    ELSE IF fd.option
         THEN IF is_none(v)
              THEN IF fd.skip THEN <<>> ELSE <<Entry(fd.key, JNull)>>
              ELSE IF fd.key \in DOMAIN HubDefault /\ unwrap(v) = HubDefault[fd.key]
                   THEN <<>>
                   ELSE <<Entry(fd.key, ToJson(fd.ty, unwrap(v)))>>
         ELSE <<Entry(fd.key, ToJson(fd.ty, v))>>

\* A derive without skip_serializing_if: a None is written as null.
SerializeField_no_skip(fd, v) ==
    IF fd.flatten THEN Availability_serialize(v)
    ELSE IF fd.option
         THEN IF is_none(v)
              THEN <<Entry(fd.key, JNull)>>
              ELSE <<Entry(fd.key, ToJson(fd.ty, unwrap(v)))>>
         ELSE <<Entry(fd.key, ToJson(fd.ty, v))>>

\* A derive with skip_serializing_if = "String::is_empty" on plain strings.
SerializeField_skip_empty(fd, v) ==
    IF fd.flatten THEN Availability_serialize(v)
    ELSE IF fd.option
         THEN IF is_none(v)
              THEN IF fd.skip THEN <<>> ELSE <<Entry(fd.key, JNull)>>
              ELSE <<Entry(fd.key, ToJson(fd.ty, unwrap(v)))>>
         ELSE IF fd.ty = "String" /\ v = EmptyString
              THEN <<>>
              ELSE <<Entry(fd.key, ToJson(fd.ty, v))>>

\* What derive(Serialize) writes for one field: a flattened field
\* contributes its own keys; skip_serializing_if = "Option::is_none" drops a
\* None; without it a None is written as null.
SerializeField(fd, v) ==
    IF fd.flatten THEN Availability_serialize(v)
    ELSE IF fd.option
         THEN IF is_none(v)
              THEN IF fd.skip THEN <<>> ELSE <<Entry(fd.key, JNull)>>
              ELSE <<Entry(fd.key, ToJson(fd.ty, unwrap(v)))>>
         ELSE <<Entry(fd.key, ToJson(fd.ty, v))>>

RECURSIVE SerializeFrom(_, _, _)
SerializeFrom(fields, s, i) ==
    IF i > Len(fields) THEN <<>>
    ELSE SerializeField(fields[i], s[fields[i].name]) \o SerializeFrom(fields, s, i + 1)

\* The '~' of a topic replaced by the prefix P; no prefix leaves it alone.
RECURSIVE Replace(_, _)
Replace(s, P) ==
    IF Len(s) = 0 THEN <<>>
    ELSE (IF Head(s) = "~" THEN P ELSE <<Head(s)>>) \o Replace(Tail(s), P)
Resolve(prefix, s) == IF is_none(prefix) THEN s ELSE Replace(s, unwrap(prefix))

\* The fields that hold a topic.
TopicFields ==
    {"command_topic", "json_attributes_topic", "position_topic",
     "set_position_topic", "state_topic", "tilt_command_topic", "tilt_status_topic"}

\* A serializer that expands the placeholder of every topic field.
SerializeStruct_resolving(fields, s) ==
    SerializeFrom(fields,
                  [f \in DOMAIN s |->
                      IF f \in TopicFields /\ Len(s[f]) > 0
                      THEN IF s[f] \in OptionOf(TopicInputs)
                           THEN Some(Resolve(s.topic_prefix, unwrap(s[f])))
                           ELSE Resolve(s.topic_prefix, s[f])
                      ELSE s[f]],
                  1)

\* derive(Serialize): the fields in declaration order.
SerializeStruct(fields, s) == SerializeFrom(fields, s, 1)

\* The serde attributes of struct Cover, one row per field in declaration order.
CoverFields == <<
    [name |-> "topic_prefix", key |-> "~", ty |-> "String", option |-> TRUE, skip |-> TRUE, flatten |-> FALSE],
    [name |-> "origin", key |-> "o", ty |-> "Origin", option |-> FALSE, skip |-> FALSE, flatten |-> FALSE],
    [name |-> "device", key |-> "dev", ty |-> "Device", option |-> FALSE, skip |-> FALSE, flatten |-> FALSE],
    [name |-> "availability", key |-> "", ty |-> "Availability", option |-> FALSE, skip |-> FALSE, flatten |-> TRUE],
    [name |-> "entity_category", key |-> "ent_cat", ty |-> "EntityCategory", option |-> TRUE, skip |-> TRUE, flatten |-> FALSE],
    [name |-> "command_topic", key |-> "cmd_t", ty |-> "String", option |-> TRUE, skip |-> TRUE, flatten |-> FALSE],
    [name |-> "device_class", key |-> "dev_cla", ty |-> "String", option |-> TRUE, skip |-> TRUE, flatten |-> FALSE],
    [name |-> "enabled_by_default", key |-> "en", ty |-> "bool", option |-> TRUE, skip |-> TRUE, flatten |-> FALSE],
    [name |-> "encoding", key |-> "e", ty |-> "String", option |-> TRUE, skip |-> TRUE, flatten |-> FALSE],
    [name |-> "icon", key |-> "ic", ty |-> "String", option |-> TRUE, skip |-> TRUE, flatten |-> FALSE],
    [name |-> "json_attributes_template", key |-> "json_attr_tpl", ty |-> "String", option |-> TRUE, skip |-> TRUE, flatten |-> FALSE],
    [name |-> "json_attributes_topic", key |-> "json_attr_t", ty |-> "String", option |-> TRUE, skip |-> TRUE, flatten |-> FALSE],
    [name |-> "name", key |-> "name", ty |-> "String", option |-> TRUE, skip |-> TRUE, flatten |-> FALSE],
    [name |-> "object_id", key |-> "obj_id", ty |-> "String", option |-> TRUE, skip |-> TRUE, flatten |-> FALSE],
    [name |-> "optimistic", key |-> "opt", ty |-> "bool", option |-> TRUE, skip |-> TRUE, flatten |-> FALSE],
    [name |-> "payload_close", key |-> "pl_cls", ty |-> "String", option |-> TRUE, skip |-> TRUE, flatten |-> FALSE],
    [name |-> "payload_open", key |-> "pl_open", ty |-> "String", option |-> TRUE, skip |-> TRUE, flatten |-> FALSE],
    [name |-> "payload_stop", key |-> "pl_stop", ty |-> "String", option |-> TRUE, skip |-> TRUE, flatten |-> FALSE],
    [name |-> "position_closed", key |-> "pos_clsd", ty |-> "i32", option |-> TRUE, skip |-> TRUE, flatten |-> FALSE],
    [name |-> "position_open", key |-> "pos_open", ty |-> "i32", option |-> TRUE, skip |-> TRUE, flatten |-> FALSE],
    [name |-> "position_template", key |-> "pos_tpl", ty |-> "String", option |-> TRUE, skip |-> TRUE, flatten |-> FALSE],
    [name |-> "position_topic", key |-> "pos_t", ty |-> "String", option |-> TRUE, skip |-> TRUE, flatten |-> FALSE],
    [name |-> "qos", key |-> "qos", ty |-> "Qos", option |-> TRUE, skip |-> TRUE, flatten |-> FALSE],
    [name |-> "retain", key |-> "ret", ty |-> "bool", option |-> TRUE, skip |-> TRUE, flatten |-> FALSE],
    [name |-> "set_position_template", key |-> "set_pos_tpl", ty |-> "String", option |-> TRUE, skip |-> TRUE, flatten |-> FALSE],
    [name |-> "set_position_topic", key |-> "set_pos_t", ty |-> "String", option |-> TRUE, skip |-> TRUE, flatten |-> FALSE],
    [name |-> "state_closed", key |-> "stat_clsd", ty |-> "String", option |-> TRUE, skip |-> TRUE, flatten |-> FALSE],
    [name |-> "state_closing", key |-> "stat_closing", ty |-> "String", option |-> TRUE, skip |-> TRUE, flatten |-> FALSE],
    [name |-> "state_open", key |-> "stat_open", ty |-> "String", option |-> TRUE, skip |-> TRUE, flatten |-> FALSE],
    [name |-> "state_opening", key |-> "stat_opening", ty |-> "String", option |-> TRUE, skip |-> TRUE, flatten |-> FALSE],
    [name |-> "state_stopped", key |-> "stat_stopped", ty |-> "String", option |-> TRUE, skip |-> TRUE, flatten |-> FALSE],
    [name |-> "state_topic", key |-> "stat_t", ty |-> "String", option |-> TRUE, skip |-> TRUE, flatten |-> FALSE],
    [name |-> "tilt_closed_value", key |-> "tilt_clsd_val", ty |-> "i32", option |-> TRUE, skip |-> TRUE, flatten |-> FALSE],
    [name |-> "tilt_command_template", key |-> "tilt_cmd_tpl", ty |-> "String", option |-> TRUE, skip |-> TRUE, flatten |-> FALSE],
    [name |-> "tilt_command_topic", key |-> "tilt_cmd_t", ty |-> "String", option |-> TRUE, skip |-> TRUE, flatten |-> FALSE],
    [name |-> "tilt_max", key |-> "tilt_max", ty |-> "i32", option |-> TRUE, skip |-> TRUE, flatten |-> FALSE],
    [name |-> "tilt_min", key |-> "tilt_min", ty |-> "i32", option |-> TRUE, skip |-> TRUE, flatten |-> FALSE],
    [name |-> "tilt_opened_value", key |-> "tilt_opnd_val", ty |-> "i32", option |-> TRUE, skip |-> TRUE, flatten |-> FALSE],
    [name |-> "tilt_optimistic", key |-> "tilt_opt", ty |-> "bool", option |-> TRUE, skip |-> TRUE, flatten |-> FALSE],
    [name |-> "tilt_status_template", key |-> "tilt_status_tpl", ty |-> "String", option |-> TRUE, skip |-> TRUE, flatten |-> FALSE],
    [name |-> "tilt_status_topic", key |-> "tilt_status_t", ty |-> "String", option |-> TRUE, skip |-> TRUE, flatten |-> FALSE],
    [name |-> "unique_id", key |-> "uniq_id", ty |-> "String", option |-> TRUE, skip |-> TRUE, flatten |-> FALSE],
    [name |-> "value_template", key |-> "val_tpl", ty |-> "String", option |-> TRUE, skip |-> TRUE, flatten |-> FALSE]
    >>

\* The table of Number with the rename of max pasted from min.
NumberFields_pasted == <<
    [name |-> "topic_prefix", key |-> "~", ty |-> "String", option |-> TRUE, skip |-> FALSE, flatten |-> FALSE],
    [name |-> "origin", key |-> "o", ty |-> "Origin", option |-> FALSE, skip |-> FALSE, flatten |-> FALSE],
    [name |-> "device", key |-> "dev", ty |-> "Device", option |-> FALSE, skip |-> FALSE, flatten |-> FALSE],
    [name |-> "entity_category", key |-> "ent_cat", ty |-> "EntityCategory", option |-> TRUE, skip |-> TRUE, flatten |-> FALSE],
    [name |-> "icon", key |-> "ic", ty |-> "String", option |-> TRUE, skip |-> TRUE, flatten |-> FALSE],
    [name |-> "json_attributes_topic", key |-> "json_attr_t", ty |-> "String", option |-> TRUE, skip |-> TRUE, flatten |-> FALSE],
    [name |-> "json_attributes_template", key |-> "json_attr_tpl", ty |-> "String", option |-> TRUE, skip |-> TRUE, flatten |-> FALSE],
    [name |-> "object_id", key |-> "obj_id", ty |-> "String", option |-> TRUE, skip |-> TRUE, flatten |-> FALSE],
    [name |-> "unique_id", key |-> "uniq_id", ty |-> "String", option |-> TRUE, skip |-> TRUE, flatten |-> FALSE],
    [name |-> "availability", key |-> "", ty |-> "Availability", option |-> FALSE, skip |-> FALSE, flatten |-> TRUE],
    [name |-> "enabled_by_default", key |-> "en", ty |-> "bool", option |-> TRUE, skip |-> TRUE, flatten |-> FALSE],
    [name |-> "state_topic", key |-> "stat_t", ty |-> "String", option |-> FALSE, skip |-> FALSE, flatten |-> FALSE],
    [name |-> "value_template", key |-> "val_tpl", ty |-> "String", option |-> TRUE, skip |-> TRUE, flatten |-> FALSE],
    [name |-> "command_topic", key |-> "cmd_t", ty |-> "String", option |-> FALSE, skip |-> FALSE, flatten |-> FALSE],
    [name |-> "command_template", key |-> "cmd_tpl", ty |-> "String", option |-> TRUE, skip |-> FALSE, flatten |-> FALSE],
    [name |-> "optimistic", key |-> "opt", ty |-> "bool", option |-> TRUE, skip |-> FALSE, flatten |-> FALSE],
    [name |-> "retain", key |-> "ret", ty |-> "bool", option |-> TRUE, skip |-> FALSE, flatten |-> FALSE],
    [name |-> "device_class", key |-> "dev_cla", ty |-> "NumberDeviceClass", option |-> TRUE, skip |-> TRUE, flatten |-> FALSE],
    [name |-> "name", key |-> "name", ty |-> "String", option |-> TRUE, skip |-> TRUE, flatten |-> FALSE],
    [name |-> "min", key |-> "min", ty |-> "f64", option |-> TRUE, skip |-> TRUE, flatten |-> FALSE],
    [name |-> "max", key |-> "min", ty |-> "f64", option |-> TRUE, skip |-> TRUE, flatten |-> FALSE],
    [name |-> "mode", key |-> "mode", ty |-> "DisplayMode", option |-> TRUE, skip |-> TRUE, flatten |-> FALSE],
    [name |-> "payload_reset", key |-> "pl_rst", ty |-> "String", option |-> TRUE, skip |-> TRUE, flatten |-> FALSE],
    [name |-> "step", key |-> "step", ty |-> "f64", option |-> TRUE, skip |-> TRUE, flatten |-> FALSE],
    [name |-> "unit_of_measurement", key |-> "unit_of_meas", ty |-> "Unit", option |-> TRUE, skip |-> TRUE, flatten |-> FALSE]
    >>

\* The serde attributes of struct Number, one row per field in declaration order.
NumberFields == <<
    [name |-> "topic_prefix", key |-> "~", ty |-> "String", option |-> TRUE, skip |-> FALSE, flatten |-> FALSE],
    [name |-> "origin", key |-> "o", ty |-> "Origin", option |-> FALSE, skip |-> FALSE, flatten |-> FALSE],
    [name |-> "device", key |-> "dev", ty |-> "Device", option |-> FALSE, skip |-> FALSE, flatten |-> FALSE],
    [name |-> "entity_category", key |-> "ent_cat", ty |-> "EntityCategory", option |-> TRUE, skip |-> TRUE, flatten |-> FALSE],
    [name |-> "icon", key |-> "ic", ty |-> "String", option |-> TRUE, skip |-> TRUE, flatten |-> FALSE],
    [name |-> "json_attributes_topic", key |-> "json_attr_t", ty |-> "String", option |-> TRUE, skip |-> TRUE, flatten |-> FALSE],
    [name |-> "json_attributes_template", key |-> "json_attr_tpl", ty |-> "String", option |-> TRUE, skip |-> TRUE, flatten |-> FALSE],
    [name |-> "object_id", key |-> "obj_id", ty |-> "String", option |-> TRUE, skip |-> TRUE, flatten |-> FALSE],
    [name |-> "unique_id", key |-> "uniq_id", ty |-> "String", option |-> TRUE, skip |-> TRUE, flatten |-> FALSE],
    [name |-> "availability", key |-> "", ty |-> "Availability", option |-> FALSE, skip |-> FALSE, flatten |-> TRUE],
    [name |-> "enabled_by_default", key |-> "en", ty |-> "bool", option |-> TRUE, skip |-> TRUE, flatten |-> FALSE],
    [name |-> "state_topic", key |-> "stat_t", ty |-> "String", option |-> FALSE, skip |-> FALSE, flatten |-> FALSE],
    [name |-> "value_template", key |-> "val_tpl", ty |-> "String", option |-> TRUE, skip |-> TRUE, flatten |-> FALSE],
    [name |-> "command_topic", key |-> "cmd_t", ty |-> "String", option |-> FALSE, skip |-> FALSE, flatten |-> FALSE],
    [name |-> "command_template", key |-> "cmd_tpl", ty |-> "String", option |-> TRUE, skip |-> FALSE, flatten |-> FALSE],
    [name |-> "optimistic", key |-> "opt", ty |-> "bool", option |-> TRUE, skip |-> FALSE, flatten |-> FALSE],
    [name |-> "retain", key |-> "ret", ty |-> "bool", option |-> TRUE, skip |-> FALSE, flatten |-> FALSE],
    [name |-> "device_class", key |-> "dev_cla", ty |-> "NumberDeviceClass", option |-> TRUE, skip |-> TRUE, flatten |-> FALSE],
    [name |-> "name", key |-> "name", ty |-> "String", option |-> TRUE, skip |-> TRUE, flatten |-> FALSE],
    [name |-> "min", key |-> "min", ty |-> "f64", option |-> TRUE, skip |-> TRUE, flatten |-> FALSE],
    [name |-> "max", key |-> "max", ty |-> "f64", option |-> TRUE, skip |-> TRUE, flatten |-> FALSE],
    [name |-> "mode", key |-> "mode", ty |-> "DisplayMode", option |-> TRUE, skip |-> TRUE, flatten |-> FALSE],
    [name |-> "payload_reset", key |-> "pl_rst", ty |-> "String", option |-> TRUE, skip |-> TRUE, flatten |-> FALSE],
    [name |-> "step", key |-> "step", ty |-> "f64", option |-> TRUE, skip |-> TRUE, flatten |-> FALSE],
    [name |-> "unit_of_measurement", key |-> "unit_of_meas", ty |-> "Unit", option |-> TRUE, skip |-> TRUE, flatten |-> FALSE]
    >>

\* Cover::default(): every Option is None, the nested blocks are their defaults.
Cover_default == [
    topic_prefix |-> None,
    origin |-> Origin_default,
    device |-> Device_default,
    availability |-> Availability_default,
    entity_category |-> None,
    command_topic |-> None,
    device_class |-> None,
    enabled_by_default |-> None,
    encoding |-> None,
    icon |-> None,
    json_attributes_template |-> None,
    json_attributes_topic |-> None,
    name |-> None,
    object_id |-> None,
    optimistic |-> None,
    payload_close |-> None,
    payload_open |-> None,
    payload_stop |-> None,
    position_closed |-> None,
    position_open |-> None,
    position_template |-> None,
    position_topic |-> None,
    qos |-> None,
    retain |-> None,
    set_position_template |-> None,
    set_position_topic |-> None,
    state_closed |-> None,
    state_closing |-> None,
    state_open |-> None,
    state_opening |-> None,
    state_stopped |-> None,
    state_topic |-> None,
    tilt_closed_value |-> None,
    tilt_command_template |-> None,
    tilt_command_topic |-> None,
    tilt_max |-> None,
    tilt_min |-> None,
    tilt_opened_value |-> None,
    tilt_optimistic |-> None,
    tilt_status_template |-> None,
    tilt_status_topic |-> None,
    unique_id |-> None,
    value_template |-> None]

\* Number::default(): every Option is None, both required topics are the empty String.
Number_default == [
    topic_prefix |-> None,
    origin |-> Origin_default,
    device |-> Device_default,
    entity_category |-> None,
    icon |-> None,
    json_attributes_topic |-> None,
    json_attributes_template |-> None,
    object_id |-> None,
    unique_id |-> None,
    availability |-> Availability_default,
    enabled_by_default |-> None,
    state_topic |-> <<>>,
    value_template |-> None,
    command_topic |-> <<>>,
    command_template |-> None,
    optimistic |-> None,
    retain |-> None,
    device_class |-> None,
    name |-> None,
    min |-> None,
    max |-> None,
    mode |-> None,
    payload_reset |-> None,
    step |-> None,
    unit_of_measurement |-> None]

\* The values a caller may write into each field of a Number (its fields are pub).
NumberInputs == [
    topic_prefix |-> OptionOf(PrefixInputs),
    origin |-> OriginInputs,
    device |-> DeviceInputs,
    entity_category |-> OptionOf(EntityCategoryInputs),
    icon |-> OptionOf(TextInputs),
    json_attributes_topic |-> OptionOf(TopicInputs),
    json_attributes_template |-> OptionOf(TextInputs),
    object_id |-> OptionOf(TextInputs),
    unique_id |-> OptionOf(TextInputs),
    availability |-> AvailabilityInputs,
    enabled_by_default |-> OptionOf(BoolInputs),
    state_topic |-> TopicInputs,
    value_template |-> OptionOf(TextInputs),
    command_topic |-> TopicInputs,
    command_template |-> OptionOf(TextInputs),
    optimistic |-> OptionOf(BoolInputs),
    retain |-> OptionOf(BoolInputs),
    device_class |-> OptionOf(NumberDeviceClassInputs),
    name |-> OptionOf(TextOrEmptyInputs),
    min |-> OptionOf(F64Inputs),
    max |-> OptionOf(F64Inputs),
    mode |-> OptionOf(DisplayModeInputs),
    payload_reset |-> OptionOf(TextInputs),
    step |-> OptionOf(F64Inputs),
    unit_of_measurement |-> OptionOf(UnitInputs)]
Cover_serialize(c) == SerializeStruct(CoverFields, c)
\* A Number whose fields lost their rename attributes: each field is written
\* under its name.
Number_serialize_unrenamed(n) ==
    SerializeStruct([i \in 1..Len(NumberFields) |->
                        [NumberFields[i] EXCEPT !.key = NumberFields[i].name]], n)

Number_serialize(n) == SerializeStruct(NumberFields, n)

\* ---------------------------------------------------------------- state machine

Init ==
    /\ kind \in {"cover", "number"}
    /\ cover = Cover_default
    /\ number = Number_default
    /\ docs = [cover |-> NoDoc, number |-> NoDoc]
    /\ pcs = [cover |-> "build", number |-> "build"]
    /\ ncalls = [cover |-> 0, number |-> 0]
    /\ errs = [cover |-> "", number |-> ""]
    /\ applied = [cover |-> {}, number |-> {}]
    /\ converted = None

\* The history of calls after one more call for field f with argument v: the
\* last argument per field, and whether the field was set more than once.
Record(h, f, v) ==
    {p \in h : p[1] # f} \cup {<<f, v, \E p \in h : p[1] = f>>}

\* A builder method of Cover, called for field f with argument v: consumes
\* self and returns the changed value c.
Builder(f, v, c) ==
    /\ kind = "cover"
    /\ pc = "build"
    /\ calls < MaxCalls
    /\ cover' = c
    /\ ncalls' = [ncalls EXCEPT !.cover = @ + 1]
    /\ applied' = [applied EXCEPT !.cover = Record(@, f, v)]
    /\ UNCHANGED <<kind, number, docs, pcs, errs, converted>>

Cover_topic_prefix(v) ==
    Builder("topic_prefix", v, [cover EXCEPT !.topic_prefix = Some(v)])

Cover_origin(v) ==
    Builder("origin", v, [cover EXCEPT !.origin = v])

Cover_device(v) ==
    Builder("device", v, [cover EXCEPT !.device = v])

Cover_entity_category(v) ==
    Builder("entity_category", v, [cover EXCEPT !.entity_category = Some(v)])

Cover_availability(v) ==
    Builder("availability", v, [cover EXCEPT !.availability = v])

Cover_command_topic(v) ==
    Builder("command_topic", v, [cover EXCEPT !.command_topic = Some(v)])

Cover_device_class(v) ==
    Builder("device_class", v, [cover EXCEPT !.device_class = Some(v)])

Cover_enabled_by_default(v) ==
    Builder("enabled_by_default", v, [cover EXCEPT !.enabled_by_default = Some(v)])

Cover_encoding(v) ==
    Builder("encoding", v, [cover EXCEPT !.encoding = Some(v)])

Cover_icon(v) ==
    Builder("icon", v, [cover EXCEPT !.icon = Some(v)])

Cover_json_attributes_template(v) ==
    Builder("json_attributes_template", v, [cover EXCEPT !.json_attributes_template = Some(v)])

Cover_json_attributes_topic(v) ==
    Builder("json_attributes_topic", v, [cover EXCEPT !.json_attributes_topic = Some(v)])

Cover_name(v) ==
    Builder("name", v, [cover EXCEPT !.name = Some(v)])

Cover_object_id(v) ==
    Builder("object_id", v, [cover EXCEPT !.object_id = Some(v)])

Cover_optimistic(v) ==
    Builder("optimistic", v, [cover EXCEPT !.optimistic = Some(v)])

Cover_payload_close(v) ==
    Builder("payload_close", v, [cover EXCEPT !.payload_close = Some(v)])

\* A setter pasted from its neighbour that writes payload_close.
Cover_payload_open_pasted(v) ==
    Builder("payload_open", v, [cover EXCEPT !.payload_close = Some(v)])

Cover_payload_open(v) ==
    Builder("payload_open", v, [cover EXCEPT !.payload_open = Some(v)])

Cover_payload_stop(v) ==
    Builder("payload_stop", v, [cover EXCEPT !.payload_stop = Some(v)])

Cover_position_closed(v) ==
    Builder("position_closed", v, [cover EXCEPT !.position_closed = Some(v)])

\* A setter that keeps the value of an earlier call.
Cover_position_open_first(v) ==
    Builder("position_open", v,
            [cover EXCEPT !.position_open = IF is_some(@) THEN @ ELSE Some(v)])

Cover_position_open(v) ==
    Builder("position_open", v, [cover EXCEPT !.position_open = Some(v)])

Cover_position_template(v) ==
    Builder("position_template", v, [cover EXCEPT !.position_template = Some(v)])

Cover_position_topic(v) ==
    Builder("position_topic", v, [cover EXCEPT !.position_topic = Some(v)])

Cover_qos(v) ==
    Builder("qos", v, [cover EXCEPT !.qos = Some(v)])

\* A setter that builds its result from Cover::default() instead of self.
Cover_retain_from_default(v) ==
    Builder("retain", v, [Cover_default EXCEPT !.retain = Some(v)])

Cover_retain(v) ==
    Builder("retain", v, [cover EXCEPT !.retain = Some(v)])

Cover_set_position_template(v) ==
    Builder("set_position_template", v, [cover EXCEPT !.set_position_template = Some(v)])

Cover_set_position_topic(v) ==
    Builder("set_position_topic", v, [cover EXCEPT !.set_position_topic = Some(v)])

Cover_state_closed(v) ==
    Builder("state_closed", v, [cover EXCEPT !.state_closed = Some(v)])

Cover_state_closing(v) ==
    Builder("state_closing", v, [cover EXCEPT !.state_closing = Some(v)])

Cover_state_open(v) ==
    Builder("state_open", v, [cover EXCEPT !.state_open = Some(v)])

Cover_state_opening(v) ==
    Builder("state_opening", v, [cover EXCEPT !.state_opening = Some(v)])

Cover_state_stopped(v) ==
    Builder("state_stopped", v, [cover EXCEPT !.state_stopped = Some(v)])

Cover_state_topic(v) ==
    Builder("state_topic", v, [cover EXCEPT !.state_topic = Some(v)])

Cover_tilt_closed_value(v) ==
    Builder("tilt_closed_value", v, [cover EXCEPT !.tilt_closed_value = Some(v)])

Cover_tilt_command_template(v) ==
    Builder("tilt_command_template", v, [cover EXCEPT !.tilt_command_template = Some(v)])

Cover_tilt_command_topic(v) ==
    Builder("tilt_command_topic", v, [cover EXCEPT !.tilt_command_topic = Some(v)])

Cover_tilt_max(v) ==
    Builder("tilt_max", v, [cover EXCEPT !.tilt_max = Some(v)])

Cover_tilt_min(v) ==
    Builder("tilt_min", v, [cover EXCEPT !.tilt_min = Some(v)])

Cover_tilt_opened_value(v) ==
    Builder("tilt_opened_value", v, [cover EXCEPT !.tilt_opened_value = Some(v)])

Cover_tilt_optimistic(v) ==
    Builder("tilt_optimistic", v, [cover EXCEPT !.tilt_optimistic = Some(v)])

Cover_tilt_status_template(v) ==
    Builder("tilt_status_template", v, [cover EXCEPT !.tilt_status_template = Some(v)])

Cover_tilt_status_topic(v) ==
    Builder("tilt_status_topic", v, [cover EXCEPT !.tilt_status_topic = Some(v)])

Cover_unique_id(v) ==
    Builder("unique_id", v, [cover EXCEPT !.unique_id = Some(v)])

Cover_value_template(v) ==
    Builder("value_template", v, [cover EXCEPT !.value_template = Some(v)])

\* A write to one pub field of the Number (a field of the struct literal).
Number_field(f, v) ==
    /\ kind = "number"
    /\ pc = "build"
    /\ calls < MaxCalls
    /\ number' = [number EXCEPT ![f] = v]
    /\ ncalls' = [ncalls EXCEPT !.number = @ + 1]
    /\ applied' = [applied EXCEPT !.number = Record(@, f, v)]
    /\ UNCHANGED <<kind, cover, docs, pcs, errs, converted>>

\* The caller constructs an availability from both forms and gives it to
\* the entity; a conflict is returned as an error and nothing is built.
Availability_construct(shortcut, entries, mode) ==
    LET r == Availability_new(shortcut, entries, mode) IN
    /\ pc = "build"
    /\ calls < MaxCalls
    /\ ncalls' = [ncalls EXCEPT ![kind] = @ + 1]
    /\ IF r.ok
       THEN /\ cover' = IF kind = "cover"
                        THEN [cover EXCEPT !.availability = r.value] ELSE cover
            /\ number' = IF kind = "number"
                         THEN [number EXCEPT !.availability = r.value] ELSE number
            /\ applied' = [applied EXCEPT ![kind] = Record(@, "availability", r.value)]
            /\ UNCHANGED <<pcs, errs>>
       ELSE /\ errs' = [errs EXCEPT ![kind] = r.error]
            /\ pcs' = [pcs EXCEPT ![kind] = "failed"]
            /\ UNCHANGED <<cover, number, applied>>
    /\ UNCHANGED <<kind, docs, converted>>

\* serde_json::to_value(&entity)
\* A serialization that takes the topic prefix out of the entity it reads.
to_value_taking ==
    /\ pc \in {"build", "done"}
    /\ docs' = [docs EXCEPT ![kind] =
                   IF kind = "cover" THEN Cover_serialize(cover) ELSE Number_serialize(number)]
    /\ pcs' = [pcs EXCEPT ![kind] = "done"]
    /\ cover' = IF kind = "cover" THEN [cover EXCEPT !.topic_prefix = None] ELSE cover
    /\ number' = IF kind = "number" THEN [number EXCEPT !.topic_prefix = None] ELSE number
    /\ UNCHANGED <<kind, ncalls, errs, applied, converted>>

\* A serialization into one buffer that every caller reads its document from.
to_value_shared ==
    /\ pc \in {"build", "done"}
    /\ LET d == IF kind = "cover" THEN Cover_serialize(cover) ELSE Number_serialize(number)
       IN docs' = [cover |-> d, number |-> d]
    /\ pcs' = [pcs EXCEPT ![kind] = "done"]
    /\ UNCHANGED <<kind, cover, number, ncalls, errs, applied, converted>>

\* The document with its entries in the opposite order.
Reverse(m) == [i \in 1..Len(m) |-> m[Len(m) + 1 - i]]

\* A serialization through a hashed map: the entries come out in an order
\* that differs from one call to the next.
to_value_hashed ==
    /\ pc \in {"build", "done"}
    /\ LET d == IF kind = "cover" THEN Cover_serialize(cover) ELSE Number_serialize(number)
       IN \E o \in {d, Reverse(d)} : docs' = [docs EXCEPT ![kind] = o]
    /\ pcs' = [pcs EXCEPT ![kind] = "done"]
    /\ UNCHANGED <<kind, cover, number, ncalls, errs, applied, converted>>

\* A serialization that returns an error for an entity without a command topic.
to_value_validating ==
    /\ pc \in {"build", "done"}
    /\ IF (IF kind = "cover" THEN is_some(cover.command_topic)
                             ELSE Len(number.command_topic) > 0)
       THEN /\ docs' = [docs EXCEPT ![kind] =
                          IF kind = "cover" THEN Cover_serialize(cover)
                          ELSE Number_serialize(number)]
            /\ pcs' = [pcs EXCEPT ![kind] = "done"]
            /\ UNCHANGED errs
       ELSE /\ errs' = [errs EXCEPT ![kind] = "missing field"]
            /\ pcs' = [pcs EXCEPT ![kind] = "failed"]
            /\ UNCHANGED docs
    /\ UNCHANGED <<kind, cover, number, ncalls, applied, converted>>

to_value ==
    /\ pc \in {"build", "done"}
    /\ docs' = [docs EXCEPT ![kind] =
                   IF kind = "cover" THEN Cover_serialize(cover) ELSE Number_serialize(number)]
    /\ pcs' = [pcs EXCEPT ![kind] = "done"]
    /\ UNCHANGED <<kind, cover, number, ncalls, errs, applied, converted>>

Next ==
    \/ \E v \in PrefixInputs : Cover_topic_prefix(v)
    \/ \E v \in OriginInputs : Cover_origin(v)
    \/ \E v \in DeviceInputs : Cover_device(v)
    \/ \E v \in EntityCategoryInputs : Cover_entity_category(v)
    \/ \E v \in AvailabilityInputs : Cover_availability(v)
    \/ \E v \in TopicInputs : Cover_command_topic(v)
    \/ \E v \in TextInputs : Cover_device_class(v)
    \/ \E v \in BoolInputs : Cover_enabled_by_default(v)
    \/ \E v \in TextOrEmptyInputs : Cover_encoding(v)
    \/ \E v \in TextInputs : Cover_icon(v)
    \/ \E v \in TextInputs : Cover_json_attributes_template(v)
    \/ \E v \in TopicInputs : Cover_json_attributes_topic(v)
    \/ \E v \in TextOrEmptyInputs : Cover_name(v)
    \/ \E v \in TextInputs : Cover_object_id(v)
    \/ \E v \in BoolInputs : Cover_optimistic(v)
    \/ \E v \in TextInputs : Cover_payload_close(v)
    \/ \E v \in TextInputs : Cover_payload_open(v)
    \/ \E v \in TextInputs : Cover_payload_stop(v)
    \/ \E v \in I32Inputs : Cover_position_closed(v)
    \/ \E v \in I32Inputs : Cover_position_open(v)
    \/ \E v \in TextInputs : Cover_position_template(v)
    \/ \E v \in TopicInputs : Cover_position_topic(v)
    \/ \E v \in QosInputs : Cover_qos(v)
    \/ \E v \in BoolInputs : Cover_retain(v)
    \/ \E v \in TextInputs : Cover_set_position_template(v)
    \/ \E v \in TopicInputs : Cover_set_position_topic(v)
    \/ \E v \in TextInputs : Cover_state_closed(v)
    \/ \E v \in TextInputs : Cover_state_closing(v)
    \/ \E v \in TextInputs : Cover_state_open(v)
    \/ \E v \in TextInputs : Cover_state_opening(v)
    \/ \E v \in TextInputs : Cover_state_stopped(v)
    \/ \E v \in TopicInputs : Cover_state_topic(v)
    \/ \E v \in I32Inputs : Cover_tilt_closed_value(v)
    \/ \E v \in TextInputs : Cover_tilt_command_template(v)
    \/ \E v \in TopicInputs : Cover_tilt_command_topic(v)
    \/ \E v \in I32Inputs : Cover_tilt_max(v)
    \/ \E v \in I32Inputs : Cover_tilt_min(v)
    \/ \E v \in I32Inputs : Cover_tilt_opened_value(v)
    \/ \E v \in BoolInputs : Cover_tilt_optimistic(v)
    \/ \E v \in TextInputs : Cover_tilt_status_template(v)
    \/ \E v \in TopicInputs : Cover_tilt_status_topic(v)
    \/ \E v \in TextInputs : Cover_unique_id(v)
    \/ \E v \in TextInputs : Cover_value_template(v)
    \/ \E f \in DOMAIN NumberInputs : \E v \in NumberInputs[f] : Number_field(f, v)
    \/ to_value

Spec == Init /\ [][Next]_vars

\* The availability in all its constructible forms, with the topic prefix
\* and one topic of the entity.
NextAvailability ==
    \/ \E a \in AvailabilityAll : Cover_availability(a)
    \/ \E a \in AvailabilityAll : Number_field("availability", a)
    \/ \E s \in OptionOf({AvailabilityEntry_topic(TopicPlain)}) :
       \E es \in EntryLists : \E m \in AvailabilityModes :
           Availability_construct(s, es, m)
    \/ \E v \in PrefixInputs : Cover_topic_prefix(v)
    \/ \E v \in PrefixInputs : Number_field("topic_prefix", Some(v))
    \/ to_value

SpecAvailability == Init /\ [][NextAvailability]_vars

\* The scheduler passes control from one caller to the other: the callers
\* share nothing, so control is all that changes.
Switch ==
    /\ kind' = (IF kind = "cover" THEN "number" ELSE "cover")
    /\ UNCHANGED <<cover, number, docs, pcs, ncalls, errs, applied, converted>>

\* Two callers, one building a Cover and one a Number, with their builder
\* calls, field writes and serializations interleaved in every way.
ConcurrentNumberFields == {"name", "state_topic", "mode", "topic_prefix"}

NextConcurrent ==
    \/ Switch
    \/ \E v \in PrefixInputs : Cover_topic_prefix(v)
    \/ \E v \in TextOrEmptyInputs : Cover_name(v)
    \/ \E v \in TopicInputs : Cover_state_topic(v)
    \/ \E v \in I32Inputs : Cover_position_open(v)
    \/ \E f \in ConcurrentNumberFields : \E v \in NumberInputs[f] : Number_field(f, v)
    \/ to_value

SpecConcurrent == Init /\ [][NextConcurrent]_vars

\* impl From<Cover> for Entity: the Cover is moved into Entity::Cover as it
\* is; its caller can neither call a setter on it nor serialize it afterwards.
Entity_from ==
    /\ kind = "cover"
    /\ pc \in {"build", "done"}
    /\ converted' = Some([variant |-> "Cover", value |-> cover])
    /\ pcs' = [pcs EXCEPT !.cover = "moved"]
    /\ UNCHANGED <<kind, cover, number, docs, ncalls, errs, applied>>

\* A Cover or a Number is built, serialized any number of times, and the
\* Cover handed over as an Entity.
HandOverNumberFields == {"topic_prefix", "name"}

NextHandOver ==
    \/ \E v \in PrefixInputs : Cover_topic_prefix(v)
    \/ \E v \in TextOrEmptyInputs : Cover_name(v)
    \/ \E v \in BoolInputs : Cover_retain(v)
    \/ \E v \in AvailabilityInputs : Cover_availability(v)
    \/ \E f \in HandOverNumberFields : \E v \in NumberInputs[f] : Number_field(f, v)
    \/ to_value
    \/ Entity_from

SpecHandOver == Init /\ [][NextHandOver]_vars

\* ---------------------------------------------------------------- claims

Has(m, k, v) == HasKey(m, k) /\ Get(m, k) = v
Fields == IF kind = "cover" THEN CoverFields ELSE NumberFields
Entity == IF kind = "cover" THEN cover ELSE number
Serialized == pc = "done"

\* The topic fields of the entity that hold a topic, with key and value.
SetTopics ==
    {i \in 1..Len(Fields) :
        /\ Fields[i].name \in TopicFields
        /\ ~(Fields[i].option /\ is_none(Entity[Fields[i].name]))}
TopicOf(i) ==
    IF Fields[i].option THEN unwrap(Entity[Fields[i].name]) ELSE Entity[Fields[i].name]
AvtyOf(m) == IF HasKey(m, "avty") THEN Get(m, "avty").v ELSE <<>>

\* C1: for every entity kind and every optional field of it, a field left
\* unset (None) has no entry under its compact key in the document, in
\* particular no null entry.
C1_UnsetFieldsOmitted ==
    Serialized =>
        \A i \in 1..Len(Fields) :
            (Fields[i].option /\ is_none(Entity[Fields[i].name]))
                => ~HasKey(doc, Fields[i].key)

\* C2 as stated: with topic prefix P every topic field is emitted with each
\* '~' replaced by P; with no prefix the '~' is preserved.
C2_TopicsExpanded ==
    Serialized =>
        \A i \in SetTopics :
            Has(doc, Fields[i].key, JStr(Resolve(Entity.topic_prefix, TopicOf(i))))

\* C2 amended: every topic field of a Cover or Number is emitted exactly
\* as it was set, each '~' preserved, whether or not a topic prefix is
\* configured.
C2_TopicsVerbatim ==
    Serialized =>
        \A i \in SetTopics : Has(doc, Fields[i].key, JStr(TopicOf(i)))

C2_Witness ==
    /\ Serialized
    /\ kind = "cover"
    /\ cover.topic_prefix = Some(TopicPrefix)
    /\ cover.state_topic = Some(TopicTilde)
    /\ Has(doc, "stat_t", JStr(TopicTilde))

\* C3: a Number whose topic_prefix is Some(P) is serialized with P under
\* the key '~', and with state_topic, command_topic and the topic of every
\* availability entry verbatim, a '~' in them left unexpanded.
C3_NumberPrefixKeyAndVerbatimTopics ==
    (Serialized /\ kind = "number" /\ is_some(number.topic_prefix)) =>
        /\ Has(doc, "~", JStr(unwrap(number.topic_prefix)))
        /\ Has(doc, "stat_t", JStr(number.state_topic))
        /\ Has(doc, "cmd_t", JStr(number.command_topic))
        /\ Len(AvtyOf(doc)) = Len(Entries(number.availability))
        /\ \A j \in 1..Len(AvtyOf(doc)) :
               Has(AvtyOf(doc)[j].v, "t", JStr(Entries(number.availability)[j].topic))

C3_Witness ==
    /\ Serialized
    /\ kind = "number"
    /\ number.topic_prefix = Some(TopicPrefix)
    /\ number.availability = single_topic(TopicTilde)
    /\ Has(doc, "~", JStr(TopicPrefix))
    /\ Has(AvtyOf(doc)[1].v, "t", JStr(TopicTilde))

Avail == Entity.availability
TopicOnly(t) == JObj(<<Entry("t", JStr(t))>>)

\* C4 as stated: Availability::single_topic(t) has one entry with the
\* default payloads and mode Latest, and serializes to 'avty' = [{"t": t}]
\* with no 'avty_mode' key.
C4_SingleTopicLatestOmitted ==
    \A t \in TopicInputs :
        (Serialized /\ Avail = single_topic(t)) =>
            /\ Entries(Avail) = <<AvailabilityEntry_topic(t)>>
            /\ Avail.mode = "Latest"
            /\ Has(doc, "avty", JArr(<<TopicOnly(t)>>))
            /\ ~HasKey(doc, "avty_mode")

\* C4 amended: Availability::single_topic(t) has exactly one entry with the
\* default payloads and mode All, and serializes to the one-element list
\* 'avty' = [{"t": t}] together with 'avty_mode' = "all".
C4_SingleTopicAll ==
    \A t \in TopicInputs :
        (Serialized /\ Avail = single_topic(t)) =>
            /\ Entries(Avail) = <<AvailabilityEntry_topic(t)>>
            /\ Avail.mode = "All"
            /\ Has(doc, "avty", JArr(<<TopicOnly(t)>>))
            /\ Has(doc, "avty_mode", JTag("all"))

C4_Witness ==
    /\ Serialized
    /\ kind = "cover"
    /\ cover.availability = single_topic(TopicPlain)
    /\ Has(doc, "avty", JArr(<<TopicOnly(TopicPlain)>>))

\* C5: a Number whose availability is single_topic(t).expire_after(n) is
\* serialized with 'avty_mode' = "all" and 'avty' = [{"t": t}], the entry
\* carrying no payload or template key.
C5_NumberSingleTopicExpireModeAll ==
    \A t \in TopicInputs : \A n \in ExpireInputs :
        (Serialized /\ kind = "number"
            /\ number.availability = expire_after(single_topic(t), n)) =>
            /\ Has(doc, "avty_mode", JTag("all"))
            /\ Has(doc, "avty", JArr(<<TopicOnly(t)>>))
            /\ Keys(AvtyOf(doc)[1].v) = {"t"}

C5_Witness ==
    /\ Serialized
    /\ kind = "number"
    /\ number.availability = expire_after(single_topic(TopicTilde), 60)
    /\ Has(doc, "avty_mode", JTag("all"))

\* The availabilities built without a call of expire_after.
ExpiryNeverSet ==
    AvailabilityPlain
    \cup {Availability_new(sh, es, m).value :
              sh \in {None}, es \in EntryLists, m \in AvailabilityModes}
    \cup {Availability_new(sh, <<>>, m).value :
              sh \in {Some(AvailabilityEntry_topic(TopicPlain))}, m \in AvailabilityModes}

\* C6: after expire_after(n) the document of the entity has the top-level
\* key 'exp_aft' with value exactly n; an availability on which
\* expire_after was never called gives no 'exp_aft' key.
C6_ExpireAfterEmitted ==
    Serialized =>
        /\ \A a \in AvailabilityPlain : \A n \in ExpireInputs :
               Avail = expire_after(a, n) => Has(doc, "exp_aft", JNum(n))
        /\ Avail \in ExpiryNeverSet => ~HasKey(doc, "exp_aft")

C6_Witness ==
    /\ Serialized
    /\ Avail = expire_after(single_topic(TopicPlain), 1)
    /\ Has(doc, "exp_aft", JNum(1))

\* C7: Availability::multiple(entries, mode) serializes 'avty' as a list
\* with one object per input entry in the input order, nothing reordered,
\* merged or dropped, and mode All gives 'avty_mode' = "all".
C7_MultipleKeepsOrder ==
    \A es \in EntryLists : \A m \in AvailabilityModes :
        (Serialized /\ Avail = multiple(es, m)) =>
            /\ Has(doc, "avty",
                   JArr([j \in 1..Len(es) |-> JObj(AvailabilityEntry_serialize(es[j]))]))
            /\ m = "All" => Has(doc, "avty_mode", JTag("all"))

C7_EntryA == AvailabilityEntry_topic(TopicTilde)
C7_EntryB ==
    AvailabilityEntry_payload_not_available(
        AvailabilityEntry_payload_available(AvailabilityEntry_topic(TopicPlain), PayloadUp),
        PayloadDown)
C7_Witness ==
    /\ Serialized
    /\ Avail = multiple(<<C7_EntryB, C7_EntryA>>, "All")
    /\ Len(AvtyOf(doc)) = 2
    /\ Has(AvtyOf(doc)[1].v, "t", JStr(TopicPlain))
    /\ Has(AvtyOf(doc)[2].v, "t", JStr(TopicTilde))

\* C8: constructing an availability from both the single-topic shortcut
\* and a non-empty entry list fails with a configuration conflict: no
\* constructed value has both forms, and nothing is serialized after the
\* failure.
C8_ConflictFailsAtConstruction ==
    /\ ~(is_some(cover.availability.single_topic_shortcut)
            /\ Len(cover.availability.entries) > 0)
    /\ ~(is_some(number.availability.single_topic_shortcut)
            /\ Len(number.availability.entries) > 0)
    /\ err # "" => (err = "ConfigurationConflict" /\ pc = "failed" /\ doc = NoDoc)
    /\ pc = "failed" => err = "ConfigurationConflict"

C8_Witness ==
    /\ err = "ConfigurationConflict"
    /\ pc = "failed"
    /\ Avail = Availability_default

\* C9: a Number whose required state_topic or command_topic was left unset
\* is never serialized: the empty String of Number::default() does not
\* stand in for it.
C9_RequiredTopicsNeverDefaulted ==
    (Serialized /\ kind = "number") =>
        /\ number.state_topic # Number_default.state_topic
        /\ number.command_topic # Number_default.command_topic

\* C10: in every serialized availability entry 'pl_avail' is absent exactly
\* when the payload of the entry is the default "online" and otherwise
\* holds the override, and likewise 'pl_not_avail' and "offline"; an entry
\* whose payloads were set to the defaults serializes as one never set.
C10_DefaultPayloadsOmitted ==
    Serialized =>
        /\ Len(AvtyOf(doc)) = Len(Entries(Avail))
        /\ \A j \in 1..Len(AvtyOf(doc)) :
              LET e == Entries(Avail)[j]
                  o == AvtyOf(doc)[j].v
              IN /\ HasKey(o, "pl_avail") <=> e.payload_available # DefaultPayloadAvailable
                 /\ HasKey(o, "pl_avail") => Get(o, "pl_avail") = JStr(e.payload_available)
                 /\ HasKey(o, "pl_not_avail")
                        <=> e.payload_not_available # DefaultPayloadNotAvailable
                 /\ HasKey(o, "pl_not_avail")
                        => Get(o, "pl_not_avail") = JStr(e.payload_not_available)

C10_ExplicitDefault ==
    AvailabilityEntry_payload_not_available(
        AvailabilityEntry_payload_available(AvailabilityEntry_topic(TopicPlain),
                                            DefaultPayloadAvailable),
        DefaultPayloadNotAvailable)
C10_Override ==
    AvailabilityEntry_payload_available(AvailabilityEntry_topic(TopicPlain), PayloadUp)
C10_Witness ==
    /\ Serialized
    /\ Entries(Avail) = <<C10_ExplicitDefault, C10_Override>>
    /\ AvtyOf(doc)[1] = TopicOnly(TopicPlain)
    /\ Has(AvtyOf(doc)[2].v, "pl_avail", JStr(PayloadUp))
    /\ ~HasKey(AvtyOf(doc)[2].v, "pl_not_avail")

\* Whether history h has a call for field f, and the argument of its last call.
Called(h, f) == \E p \in h : p[1] = f
ArgOf(h, f) == (CHOOSE p \in h : p[1] = f)[2]
AtMostOnce(h) == \A p \in h : ~p[3]
FieldRow(fields, f) == fields[CHOOSE i \in 1..Len(fields) : fields[i].name = f]
\* The row of each field of Cover and of Number, by field name.
CoverRow == [f \in {CoverFields[i].name : i \in 1..Len(CoverFields)} |-> FieldRow(CoverFields, f)]
NumberRow == [f \in {NumberFields[i].name : i \in 1..Len(NumberFields)} |-> FieldRow(NumberFields, f)]

\* The Cover that Cover::default() becomes under the set of builder calls h,
\* whatever the order they are made in.
Cover_from(h) ==
    [f \in DOMAIN Cover_default |->
        IF Called(h, f)
        THEN IF CoverRow[f].option THEN Some(ArgOf(h, f)) ELSE ArgOf(h, f)
        ELSE Cover_default[f]]

\* The keys of a struct in the order its fields are declared; the flattened
\* availability stands for its own keys.
RECURSIVE DeclaredKeysFrom(_, _)
DeclaredKeysFrom(fields, i) ==
    IF i > Len(fields) THEN <<>>
    ELSE (IF fields[i].flatten THEN <<"avty_mode", "avty", "exp_aft">>
          ELSE <<fields[i].key>>) \o DeclaredKeysFrom(fields, i + 1)
DeclaredKeys(fields) == DeclaredKeysFrom(fields, 1)
CoverKeys == DeclaredKeys(CoverFields)
NumberKeys == DeclaredKeys(NumberFields)
Position(order, k) == CHOOSE i \in 1..Len(order) : order[i] = k

\* The keys of a document in the order they were written.
KeySeq(m) == [i \in 1..Len(m) |-> m[i][1]]

\* The keys ks occur in the order given by order, none twice.
InOrder(ks, order) ==
    /\ \A i \in 1..Len(ks) : \E j \in 1..Len(order) : order[j] = ks[i]
    /\ \A i, j \in 1..Len(ks) : i < j => Position(order, ks[i]) < Position(order, ks[j])

\* C11: a Cover built from Cover::default() by a set of builder calls, each
\* setter called at most once, is determined by the set of calls alone and not
\* by their order: the value is the default with each called field holding its
\* argument, its document is the serialization of that value, and the keys of
\* the document follow the declaration order of the fields.
C11_SettersCommute ==
    AtMostOnce(applied.cover) =>
        /\ cover = Cover_from(applied.cover)
        /\ (kind = "cover" /\ Serialized) =>
              /\ doc = Cover_serialize(Cover_from(applied.cover))
              /\ InOrder(KeySeq(doc), CoverKeys)

\* Two different setters were called, the later declared one among them, and
\* the value was serialized.
C11_Witness ==
    /\ kind = "cover" /\ Serialized
    /\ AtMostOnce(applied.cover)
    /\ Called(applied.cover, "payload_open")
    /\ Called(applied.cover, "icon")
    /\ KeySeq(doc) = <<"o", "dev", "avty", "ic", "pl_open">>

\* The kinds of JSON value a document holds.
JsonKinds ==
    {"null", "bool", "number", "string", "tag", "array", "object", "EntityCategory", "Qos"}

\* m is a document: a list of entries, each a declared key of the struct with
\* a JSON value.
IsDocument(m, keys) ==
    /\ m # NoDoc
    /\ \A i \in 1..Len(m) :
          /\ \E j \in 1..Len(keys) : keys[j] = m[i][1]
          /\ m[i][2].t \in JsonKinds

\* C12: serializing a constructed Cover or Number always succeeds: whatever
\* the field values (empty strings, negative integers, default origin and
\* device blocks, any mix of set and unset options), every step of a caller
\* that is not a builder call or field write, that is every serialization,
\* returns no error and leaves the caller with a document.
C12_SerializationTotal ==
    [][(pc \in {"build", "done"} /\ kind' = kind /\ ncalls' = ncalls) =>
          (pc' = "done" /\ err' = "" /\ IsDocument(doc', IF kind = "cover" THEN CoverKeys ELSE NumberKeys))]_vars

\* An entity with an empty string, a negative integer, default blocks and
\* everything else unset was serialized.
C12_Witness ==
    /\ kind = "cover" /\ Serialized
    /\ cover.encoding = Some(EmptyString)
    /\ cover.position_closed = Some(-1)
    /\ cover.origin = Origin_default /\ cover.device = Device_default
    /\ is_none(cover.command_topic)
    /\ Has(doc, "e", JStr(EmptyString))
    /\ Has(doc, "pos_clsd", JNum(-1))

\* The keys of the availability fields.
AvailabilityKeys == {"avty", "avty_mode", "exp_aft"}

\* C13: in every serialized Cover or Number document the origin is a nested
\* object under "o" and the device a nested object under "dev", while every
\* availability field is an entry of the entity document itself: no entry of
\* the document is an object that holds an availability key.
C13_BlocksNestedAvailabilityFlat ==
    Serialized =>
        /\ Has(doc, "o", JObj(Origin_serialize(Entity.origin)))
        /\ Has(doc, "dev", JObj(Device_serialize(Entity.device)))
        /\ LET a == Availability_serialize(Entity.availability)
           IN \A i \in 1..Len(a) : a[i][1] \in AvailabilityKeys /\ Has(doc, a[i][1], a[i][2])
        /\ \A i \in 1..Len(doc) :
              doc[i][2].t = "object" =>
                  \A j \in 1..Len(doc[i][2].v) : doc[i][2].v[j][1] \notin AvailabilityKeys

\* A Number with an origin name and an availability of all three fields was
\* serialized.
C13_Witness ==
    /\ kind = "number" /\ Serialized
    /\ number.origin \in OriginInputs
    /\ Has(doc, "o", JObj(<<Entry("name", JStr(<<"a">>))>>))
    /\ Has(doc, "dev", JObj(<<>>))
    /\ Keys(doc) \cap AvailabilityKeys = AvailabilityKeys
    /\ Has(doc, "exp_aft", JNum(60))

\* The tags the documentation gives for the variants the inputs use.
DocumentedTag ==
    [Box |-> "box", Slider |-> "slider", Battery |-> "battery", Power |-> "power",
     Percentage |-> "%", All |-> "all", Any |-> "any", Latest |-> "latest"]

\* Distinct variants of one enumeration have distinct tags, none its variant name.
DistinctTags(tag) ==
    /\ \A v, w \in DOMAIN tag : v # w => tag[v] # tag[w]
    /\ \A v \in DOMAIN tag : tag[v] # v

EnumTagsDistinct ==
    /\ DistinctTags(DisplayModeTag)
    /\ DistinctTags(NumberDeviceClassTag)
    /\ DistinctTags(AvailabilityModeTag)

\* C14: every enumerated value of a serialized Number is written as its
\* documented short tag and not as its variant name (Box as "box", Slider as
\* "slider", Battery as "battery", availability mode All as "all"), and within
\* one enumeration distinct variants have distinct tags.
C14_EnumTags ==
    /\ (kind = "number" /\ Serialized) =>
          /\ is_some(number.mode) =>
                Has(doc, "mode", JTag(DocumentedTag[unwrap(number.mode)]))
          /\ is_some(number.device_class) =>
                Has(doc, "dev_cla", JTag(DocumentedTag[unwrap(number.device_class)]))
          /\ is_some(number.unit_of_measurement) =>
                Has(doc, "unit_of_meas", JTag(DocumentedTag[unwrap(number.unit_of_measurement)]))
          /\ number.availability.mode # "Latest" =>
                Has(doc, "avty_mode", JTag(DocumentedTag[number.availability.mode]))
    /\ EnumTagsDistinct

\* A Number with a display mode and a device class was serialized.
C14_Witness ==
    /\ kind = "number" /\ Serialized
    /\ number.mode = Some("Slider")
    /\ number.device_class = Some("Battery")
    /\ Has(doc, "mode", JTag("slider"))
    /\ Has(doc, "dev_cla", JTag("battery"))

\* The fields of Number whose documentation says they can be null.
NullableNumberFields == {"device_class", "name", "unit_of_measurement"}

\* C15: a field documented as "can be set to null" has three states: unset
\* omits its key, explicitly null writes the key with the value null, and
\* present writes the key with the value.  For a Number: a nullable field the
\* caller wrote the null value to has its key in the document with value
\* null, and one with a value has its key with that value.
C15_ExplicitNullEmitted ==
    (kind = "number" /\ Serialized) =>
        \A f \in NullableNumberFields :
            Called(applied.number, f) =>
                LET fd == NumberRow[f]
                IN IF is_none(ArgOf(applied.number, f))
                   THEN Has(doc, fd.key, JNull)
                   ELSE Has(doc, fd.key, ToJson(fd.ty, unwrap(ArgOf(applied.number, f))))

\* The Number that Number::default() becomes under the field writes of h.
Number_from(h) ==
    [f \in DOMAIN Number_default |->
        IF Called(h, f) THEN ArgOf(h, f) ELSE Number_default[f]]

\* What a caller that runs alone holds after the calls of history h.
AloneDoc(k, h) ==
    IF k = "cover" THEN Cover_serialize(Cover_from(h)) ELSE Number_serialize(Number_from(h))

\* C17: with the builder calls and serializations of two callers interleaved
\* in every way, each caller holds the entity its own calls give and obtains
\* exactly the document it would obtain running alone: a caller's entity and
\* document are determined by its own calls, whatever the other caller did,
\* and a caller that has not serialized holds no document.
C17_CallersIndependent ==
    /\ cover = Cover_from(applied.cover)
    /\ number = Number_from(applied.number)
    /\ \A k \in {"cover", "number"} :
          /\ errs[k] = ""
          /\ docs[k] = IF pcs[k] = "done" THEN AloneDoc(k, applied[k]) ELSE NoDoc

\* Both callers made calls and both serialized, to different documents.
C17_Witness ==
    /\ pcs.cover = "done" /\ pcs.number = "done"
    /\ Called(applied.cover, "name") /\ Called(applied.cover, "state_topic")
    /\ Called(applied.number, "mode") /\ Called(applied.number, "state_topic")
    /\ HasKey(docs.cover, "stat_t") /\ HasKey(docs.number, "mode")
    /\ docs.cover # docs.number

C21_SerializationReadsOnly ==
    [][/\ (cover' # cover \/ number' # number) =>
             /\ pc = "build" /\ pc' = "build"
             /\ calls' = calls + 1
             /\ docs' = docs /\ converted' = converted
       /\ (docs' # docs \/ pcs' # pcs \/ converted' # converted) =>
             cover' = cover /\ number' = number
       /\ converted' # converted =>
             converted' = Some([variant |-> "Cover", value |-> cover])]_vars

\* A Cover with a topic prefix was serialized and then converted: the Entity
\* holds it with the prefix.
C21_Witness ==
    /\ pcs.cover = "moved"
    /\ docs.cover # NoDoc
    /\ is_some(cover.topic_prefix)
    /\ Has(docs.cover, "~", JStr(TopicPrefix))
    /\ converted = Some([variant |-> "Cover", value |-> cover])

\* Field fd of the entity is written: it is not a None that is skipped.
Written(fd, v) == ~(fd.option /\ fd.skip /\ is_none(v))

\* C22: the compact key a field is emitted under is fixed per entity kind
\* and field, whatever the values of that field and of the other fields:
\* every written field of a serialized entity is in the document under the
\* key of its row in the table of its kind, every key of the document is an
\* availability key or the key of such a row, and command_topic is always
\* under "cmd_t".
C22_KeysStatic ==
    Serialized =>
        /\ \A i \in 1..Len(Fields) :
              (~Fields[i].flatten /\ Written(Fields[i], Entity[Fields[i].name])) =>
                  HasKey(doc, Fields[i].key)
        /\ \A j \in 1..Len(doc) :
              \/ doc[j][1] \in AvailabilityKeys
              \/ \E i \in 1..Len(Fields) :
                    /\ ~Fields[i].flatten
                    /\ Fields[i].key = doc[j][1]
                    /\ Written(Fields[i], Entity[Fields[i].name])
        /\ Written(FieldRow(Fields, "command_topic"), Entity.command_topic) =>
              HasKey(doc, "cmd_t")

\* A Cover with a command topic, a topic prefix and an availability that has
\* an expiry was serialized; so was one with an empty string.
C22_Witness ==
    /\ kind = "cover" /\ Serialized
    /\ cover.command_topic = Some(TopicTilde)
    /\ \/ is_some(cover.topic_prefix)
       \/ cover.encoding = Some(EmptyString)
    /\ Has(doc, "cmd_t", JStr(TopicTilde))

SetValue(f, v) == IF CoverRow[f].option THEN Some(v) ELSE v

\* C24: each builder setter of Cover changes exactly the field it is named
\* after: in every step that is a builder call, the field of the called
\* setter holds the argument and every other field of the Cover, origin,
\* device, availability and topic_prefix included, is as it was before.
C24_SetterChangesOneField ==
    [][ncalls'.cover # ncalls.cover =>
          LET called == applied'.cover \ applied.cover
          IN IF called = {} THEN cover' = cover
             ELSE \E p \in called :
                     /\ cover'[p[1]] = SetValue(p[1], p[2])
                     /\ \A g \in DOMAIN cover : g # p[1] => cover'[g] = cover[g]]_vars

\* retain was called on a Cover that already had another field set, and the
\* other field is still there.
C24_Witness ==
    /\ kind = "cover"
    /\ Called(applied.cover, "retain") /\ Called(applied.cover, "topic_prefix")
    /\ cover.retain = Some(FALSE)
    /\ cover.topic_prefix = Some(TopicPrefix)
    /\ cover.origin = Origin_default

\* The optional fields of Cover.
OptionalCoverFields ==
    {CoverFields[i].name : i \in {j \in 1..Len(CoverFields) : CoverFields[j].option}}

\* C25: after any sequence of builder calls from Cover::default(), an
\* optional field is None if and only if its setter was never called, and
\* otherwise holds the argument of the most recent call of its setter, however
\* often and with whatever arguments the setter was called before.
C25_LastWriteWins ==
    \A f \in OptionalCoverFields :
        /\ is_none(cover[f]) <=> ~Called(applied.cover, f)
        /\ Called(applied.cover, f) => cover[f] = Some(ArgOf(applied.cover, f))

\* position_open was called twice and holds the argument of the later call.
C25_Witness ==
    /\ \E p \in applied.cover : p[1] = "position_open" /\ p[3]
    /\ ArgOf(applied.cover, "position_open") = -1
    /\ cover.position_open = Some(-1)
    /\ is_none(cover.position_closed)

\* No key occurs twice in the sequence ks.
Distinct(ks) == \A i, j \in 1..Len(ks) : i # j => ks[i] # ks[j]

\* The declared keys of each kind, those of the flattened availability
\* included, are pairwise distinct.
DeclaredKeysDistinct ==
    /\ Distinct(CoverKeys)
    /\ Distinct(NumberKeys)
    /\ NumberRow["mode"].key \notin AvailabilityKeys

\* C26: within each entity kind the top-level keys are pairwise distinct,
\* the keys of the flattened availability included (Number's 'mode' is none
\* of 'avty', 'avty_mode', 'exp_aft'): no serialized document has two
\* entries under one key, so no value replaces another.
C26_TopLevelKeysDistinct ==
    /\ DeclaredKeysDistinct
    /\ Serialized => Distinct(KeySeq(doc))

\* A Number with a display mode, a maximum and an availability in mode all
\* was serialized: 'mode' and 'avty_mode' are both there with their values.
C26_Witness ==
    /\ kind = "number" /\ Serialized
    /\ Has(doc, "mode", JTag("box"))
    /\ Has(doc, "avty_mode", JTag("all"))
    /\ HasKey(doc, "avty")

\* C27: a Cover field set through its builder is always emitted under its
\* compact key with exactly the given value, also when the value is the
\* default the hub documents for the field: retain(false) gives 'ret': false,
\* position_open(100) gives 'pos_open': 100, enabled_by_default(true) gives
\* 'en': true.  Presence decides, not comparison with the default.
C27_SetFieldsAlwaysEmitted ==
    (kind = "cover" /\ Serialized) =>
        /\ \A f \in OptionalCoverFields :
              Called(applied.cover, f) =>
                  Has(doc, CoverRow[f].key,
                      ToJson(CoverRow[f].ty, ArgOf(applied.cover, f)))
        /\ cover.retain = Some(FALSE) => Has(doc, "ret", JBool(FALSE))
        /\ cover.position_open = Some(100) => Has(doc, "pos_open", JNum(100))
        /\ cover.enabled_by_default = Some(TRUE) => Has(doc, "en", JBool(TRUE))

\* A Cover with retain(false) and position_open(100) was serialized.
C27_Witness ==
    /\ kind = "cover" /\ Serialized
    /\ cover.retain = Some(FALSE) /\ cover.position_open = Some(100)
    /\ Has(doc, "ret", JBool(FALSE)) /\ Has(doc, "pos_open", JNum(100))

\* C28: Cover::default() with no builder call serializes to a document whose
\* only keys are 'o', 'dev' and the keys of the default availability: none
\* of the optional keys of Cover is there, '~' included, and 'o' and 'dev' are
\* there with the default origin and device.
C28_DefaultCoverDocument ==
    (kind = "cover" /\ Serialized /\ calls = 0) =>
        /\ cover = Cover_default
        /\ KeySeq(doc) =
              <<"o", "dev">> \o KeySeq(Availability_serialize(Availability_default))
        /\ Has(doc, "o", JObj(Origin_serialize(Origin_default)))
        /\ Has(doc, "dev", JObj(Device_serialize(Device_default)))
        /\ \A f \in OptionalCoverFields : ~HasKey(doc, CoverRow[f].key)
        /\ ~HasKey(doc, "~")

\* Cover::default() was serialized with no call before.
C28_Witness ==
    /\ kind = "cover" /\ Serialized /\ calls = 0
    /\ applied.cover = {}
    /\ Keys(doc) = {"o", "dev", "avty"}

\* The fields Cover and Number both have under the same name.
SharedFields ==
    {"topic_prefix", "origin", "device", "entity_category", "icon",
     "json_attributes_topic", "json_attributes_template", "object_id", "unique_id",
     "enabled_by_default", "state_topic", "value_template", "command_topic",
     "optimistic", "retain", "device_class", "name"}
FieldNames(fields) == {fields[i].name : i \in 1..Len(fields)}

\* The shared fields are the keyed fields of both tables, with one key each.
SharedKeysAgree ==
    /\ SharedFields = (FieldNames(CoverFields) \cap FieldNames(NumberFields)) \ {"availability"}
    /\ \A f \in SharedFields :
          CoverRow[f].key = NumberRow[f].key

\* C29: every field that Cover and Number both have under the same name is
\* emitted under the same compact key by both kinds: the two tables agree on
\* it, and when a Cover and a Number were both serialized, every shared
\* field written for both is under one and the same key in both documents.
C29_SharedFieldsSameKey ==
    /\ SharedKeysAgree
    /\ (pcs.cover = "done" /\ pcs.number = "done") =>
          \A f \in SharedFields :
              LET c == CoverRow[f]
                  n == NumberRow[f]
              IN (Written(c, cover[f]) /\ Written(n, number[f])) =>
                    /\ HasKey(docs.cover, c.key)
                    /\ HasKey(docs.number, c.key)

\* A Cover and a Number, both with a topic prefix, a name and a state topic,
\* were serialized.
C29_Witness ==
    /\ pcs.cover = "done" /\ pcs.number = "done"
    /\ is_some(cover.name) /\ is_some(number.name)
    /\ is_some(cover.state_topic)
    /\ HasKey(docs.cover, "stat_t") /\ HasKey(docs.number, "stat_t")
    /\ HasKey(docs.cover, "name") /\ HasKey(docs.number, "name")

\* C30: every serialized Number document has the keys 'stat_t' and 'cmd_t'
\* with the values of state_topic and command_topic, whatever they are, the
\* empty strings of Number::default() included, and whatever the other
\* fields hold.
C30_NumberTopicsAlwaysPresent ==
    (kind = "number" /\ Serialized) =>
        /\ Has(doc, "stat_t", JStr(number.state_topic))
        /\ Has(doc, "cmd_t", JStr(number.command_topic))

\* A Number with a state topic, the command topic of Number::default() and
\* another field set was serialized.
C30_Witness ==
    /\ kind = "number" /\ Serialized
    /\ number.state_topic = TopicTilde
    /\ number.command_topic = EmptyString
    /\ is_some(number.topic_prefix)
    /\ Has(doc, "stat_t", JStr(TopicTilde))
    /\ Has(doc, "cmd_t", JStr(EmptyString))

====
